---- MODULE Spec2Model ----
(***************************************************************************)
(* Model of kernel_gateway/services/activity/manager.py: ActivityManager,  *)
(* the in-process store of per-kernel activity values.                     *)
(*                                                                         *)
(* Python dicts are objects with identity, so the model keeps a heap of    *)
(* dict objects and lets self.values and self.dummy_map hold references    *)
(* into it.  A Python value is a record [t, n]: t is its type and n its    *)
(* numeric content (bool is a subclass of int: False is 0, True is 1).     *)
(***************************************************************************)
EXTENDS Integers, FiniteSets, Sequences, TLC

\* ------------------------------------------------------------------ bounds
\* Integers stored in a field stay within -MaxCount .. MaxCount.
MaxCount == 2
\* Number of publish, increment_activity and decrement_activity calls made
\* on the manager in one behaviour (the other calls are not counted).
MaxWrites == 2

\* Kernel ids the callers use.
Kernels == {"k1", "k2"}

\* ------------------------------------------------------- activity keys
LAST_MESSAGE_TO_CLIENT == "last_message_to_client"
LAST_MESSAGE_TO_KERNEL == "last_message_to_kernel"
LAST_TIME_STATE_CHANGED == "last_time_state_changed"
BUSY == "busy"
CONNECTIONS == "connections"
LAST_CLIENT_CONNECT == "last_client_connect"
LAST_CLIENT_DISCONNECT == "last_client_disconnect"

\* An activity_type no default exists for (publish does not validate it).
UNKNOWN_KEY == "mood"

\* ------------------------------------------------------- Python values
NoneV == [t |-> "none", n |-> 0]
BoolV(b) == [t |-> "bool", n |-> IF b THEN 1 ELSE 0]
IntV(i) == [t |-> "int", n |-> i]
StrV == [t |-> "str", n |-> 0]

\* default_activity_values, as the (key, value) pairs of the list.
default_activity_values ==
    << <<LAST_MESSAGE_TO_CLIENT, NoneV>>,
       <<LAST_MESSAGE_TO_KERNEL, NoneV>>,
       <<LAST_TIME_STATE_CHANGED, NoneV>>,
       <<BUSY, BoolV(FALSE)>>,
       <<CONNECTIONS, IntV(0)>>,
       <<LAST_CLIENT_CONNECT, NoneV>>,
       <<LAST_CLIENT_DISCONNECT, NoneV>> >>

\* d[key] = value on a dict d (a function from its keys to values).
SetItem(d, key, value) ==
    [x \in DOMAIN d \cup {key} |-> IF x = key THEN value ELSE d[x]]

\* The empty dict {}.
EmptyDict == [x \in {} |-> NoneV]

RECURSIVE PopulateFrom(_, _)
PopulateFrom(d, i) ==
    IF i > Len(default_activity_values) THEN d
    ELSE PopulateFrom(SetItem(d, default_activity_values[i][1],
                                 default_activity_values[i][2]), i + 1)

\* Mutant: the loop starts at the second pair.
populate_skips_first(activity_values) == PopulateFrom(activity_values, 2)

\* populate_kernel_with_defaults(activity_values): the dict after the loop.
populate_kernel_with_defaults(activity_values) == PopulateFrom(activity_values, 1)

\* The inputs the callers draw from.
FieldArgs == {BUSY, CONNECTIONS, LAST_CLIENT_CONNECT, UNKNOWN_KEY}
\* publish is called with these (activity_type, value) pairs.
PublishArgs == {<<BUSY, BoolV(TRUE)>>, <<CONNECTIONS, NoneV>>,
                <<LAST_CLIENT_CONNECT, StrV>>, <<UNKNOWN_KEY, IntV(0)>>}

\* ------------------------------------------------------------- state
VARIABLES
    heap,        \* dict objects: reference -> dict
    nextRef,     \* the reference the next {} gets
    values,      \* self.values: kernel id -> reference of its dict
    ignore,      \* self.ignore
    dummy_map,   \* self.dummy_map: reference of the shared dict
    call,        \* the last call made: [op, k, f, pre]
    ret,         \* the dict the last call got from get_map_for_kernel
    err,         \* how the last call ended: "ok" or the exception raised
    removeArgs,  \* history: the remove() calls made, as pairs of the kernel
                 \* id and where it stood when the call began
    nwrites,     \* history: number of publish/increment/decrement calls made
    connCalls    \* history, per kernel id, since its record was created:
                 \* net is the number of increment_activity minus the number
                 \* of decrement_activity calls on 'connections', pub whether
                 \* 'connections' has been published to

vars == <<heap, nextRef, values, ignore, dummy_map, call, ret, err,
          removeArgs, nwrites, connCalls>>

NoRef == -1
NoCall == [op |-> "init", k |-> "", f |-> "", pre |-> ""]

\* Where a kernel id stands when a call begins.
Lifecycle(k) ==
    IF k \in ignore THEN "ignored"
    ELSE IF k \in DOMAIN values THEN "tracked"
    ELSE "untracked"

\* __init__
Init ==
    /\ heap = [r \in {0} |-> populate_kernel_with_defaults(EmptyDict)]
    /\ nextRef = 1
    /\ values = [k \in {} |-> NoRef]
    /\ ignore = {}
    /\ dummy_map = 0
    /\ call = NoCall
    /\ ret = NoRef
    /\ err = "ok"
    /\ removeArgs = {}
    /\ nwrites = 0
    /\ connCalls = [k \in Kernels |-> [pub |-> FALSE, net |-> 0]]

\* get_map_for_kernel returning a dict that exists: nothing is written.
Existing(ref) ==
    [ref |-> ref, heap |-> heap, nextRef |-> nextRef, values |-> values]

\* Mutant: the new entry is self.dummy_map itself, not a dict of its own.
Created_SharesDummy(kernel_id) ==
    [ref |-> dummy_map,
     heap |-> heap,
     nextRef |-> nextRef,
     values |-> [k \in DOMAIN values \cup {kernel_id} |->
                   IF k = kernel_id THEN dummy_map ELSE values[k]]]

\* self.values[kernel_id] = {} followed by populate_kernel_with_defaults.
Created(kernel_id) ==
    [ref |-> nextRef,
     heap |-> [r \in DOMAIN heap \cup {nextRef} |->
                 IF r = nextRef
                 THEN populate_kernel_with_defaults(EmptyDict)
                 ELSE heap[r]],
     nextRef |-> nextRef + 1,
     values |-> [k \in DOMAIN values \cup {kernel_id} |->
                   IF k = kernel_id THEN nextRef ELSE values[k]]]

\* Mutant: the test of self.ignore is missing.
MapForKernel_NoIgnoreCheck(kernel_id) ==
    IF kernel_id \notin DOMAIN values THEN Created(kernel_id)
    ELSE Existing(values[kernel_id])

\* Mutant: the record is created before self.ignore is tested.
MapForKernel_CreateFirst(kernel_id) ==
    LET c == IF kernel_id \notin DOMAIN values THEN Created(kernel_id)
             ELSE Existing(values[kernel_id])
    IN IF kernel_id \in ignore THEN [c EXCEPT !.ref = dummy_map] ELSE c

\* Mutant: a tracked kernel gets a new dict on every access.
MapForKernel_AlwaysFresh(kernel_id) ==
    IF kernel_id \in ignore THEN Existing(dummy_map) ELSE Created(kernel_id)

\* Mutant: an ignored kernel gets a new dict of defaults, stored nowhere.
MapForKernel_FreshDummy(kernel_id) ==
    IF kernel_id \in ignore
    THEN [ref |-> nextRef,
          heap |-> [r \in DOMAIN heap \cup {nextRef} |->
                      IF r = nextRef
                      THEN populate_kernel_with_defaults(EmptyDict)
                      ELSE heap[r]],
          nextRef |-> nextRef + 1,
          values |-> values]
    ELSE IF kernel_id \notin DOMAIN values THEN Created(kernel_id)
    ELSE Existing(values[kernel_id])

\* get_map_for_kernel(kernel_id) as a function of the state: the reference
\* returned and the heap, allocation counter and values it leaves.
MapForKernel(kernel_id) ==
    IF kernel_id \in ignore THEN Existing(dummy_map)
    ELSE IF kernel_id \notin DOMAIN values THEN Created(kernel_id)
    ELSE Existing(values[kernel_id])

\* The calls on 'connections' of a kernel that has, or now gets, a live
\* record are counted; remove on a tracked kernel ends the count.
CountConnections(op, k, f) ==
    IF k \in Kernels \ ignore /\ f = CONNECTIONS /\ op = "publish"
    THEN [connCalls EXCEPT ![k] = [pub |-> TRUE, net |-> 0]]
    ELSE IF k \in Kernels \ ignore /\ f = CONNECTIONS
            /\ op \in {"increment_activity", "decrement_activity"}
    THEN [connCalls EXCEPT ![k] =
            IF @.pub THEN @
            ELSE [pub |-> FALSE,
                  net |-> @.net + (IF op = "increment_activity" THEN 1 ELSE -1)]]
    ELSE IF op = "remove" /\ k \in DOMAIN values
    THEN [connCalls EXCEPT ![k] = [pub |-> FALSE, net |-> 0]]
    ELSE connCalls

Called(op, k, f) ==
    /\ call' = [op |-> op, k |-> k, f |-> f, pre |-> Lifecycle(k)]
    /\ connCalls' = CountConnections(op, k, f)

\* One more of the counted calls.
Write ==
    /\ nwrites < MaxWrites
    /\ nwrites' = nwrites + 1

get_map_for_kernel(kernel_id) ==
    LET m == MapForKernel(kernel_id) IN
    /\ Called("get_map_for_kernel", kernel_id, "")
    /\ UNCHANGED nwrites
    /\ heap' = m.heap
    /\ nextRef' = m.nextRef
    /\ values' = m.values
    /\ ret' = m.ref
    /\ err' = "ok"
    /\ UNCHANGED <<ignore, dummy_map, removeArgs>>

publish(kernel_id, activity_type, value) ==
    LET m == MapForKernel(kernel_id) IN
    /\ Called("publish", kernel_id, activity_type)
    /\ Write
    /\ heap' = [m.heap EXCEPT ![m.ref] = SetItem(@, activity_type, value)]
    /\ nextRef' = m.nextRef
    /\ values' = m.values
    /\ ret' = m.ref
    /\ err' = "ok"
    /\ UNCHANGED <<ignore, dummy_map, removeArgs>>

\* The outcome of a Python statement that may raise: exc is "ok" or the
\* exception's name, v the value it produced.
Ok(v) == [exc |-> "ok", v |-> v]
Raise(e) == [exc |-> e, v |-> NoneV]

\* Mutant: only a value whose type is exactly int is added to.
PyAdd_ExactInt(value, delta) ==
    IF value.t = "int" THEN Ok(IntV(value.n + delta))
    ELSE Raise("TypeError")

\* Mutant: None is silently taken as 0.
PyAdd_NoneAsZero(value, delta) ==
    IF value.t \in {"int", "bool", "none"} THEN Ok(IntV(value.n + delta))
    ELSE Raise("TypeError")

\* Mutant: the result is clamped at 0.
PyAdd_FloorZero(value, delta) ==
    IF value.t \in {"int", "bool"}
    THEN Ok(IntV(IF value.n + delta < 0 THEN 0 ELSE value.n + delta))
    ELSE Raise("TypeError")

\* value + delta for an int delta: int and bool (a subclass of int) add as
\* numbers and give an int; None and str raise TypeError.
PyAdd(value, delta) ==
    IF value.t \in {"int", "bool"} THEN Ok(IntV(value.n + delta))
    ELSE Raise("TypeError")

\* Mutant: a missing key reads as 0, as a defaultdict(int) would.
GetItem_DefaultZero(d, key) ==
    IF key \in DOMAIN d THEN Ok(d[key]) ELSE Ok(IntV(0))

\* d[key] read from a dict: KeyError when the key is missing.
GetItem(d, key) ==
    IF key \in DOMAIN d THEN Ok(d[key]) ELSE Raise("KeyError")

\* d[key] += delta: the read, the addition, and the value to store.
AugAssign(d, key, delta) ==
    LET got == GetItem(d, key) IN
    IF got.exc # "ok" THEN got ELSE PyAdd(got.v, delta)

\* Integers are unbounded in Python; the model stops counting at MaxCount.
InRange(r) == r.exc = "ok" => (r.v.n >= -MaxCount /\ r.v.n <= MaxCount)

\* Mutant: the value is checked before the record is looked up, so a call
\* that raises leaves no record behind.
AddToActivity_CheckFirst(op, kernel_id, activity_type, delta) ==
    LET m == MapForKernel(kernel_id)
        r == AugAssign(m.heap[m.ref], activity_type, delta)
    IN
    /\ InRange(r)
    /\ Called(op, kernel_id, activity_type)
    /\ Write
    /\ heap' = IF r.exc = "ok"
               THEN [m.heap EXCEPT ![m.ref] = SetItem(@, activity_type, r.v)]
               ELSE heap
    /\ nextRef' = IF r.exc = "ok" THEN m.nextRef ELSE nextRef
    /\ values' = IF r.exc = "ok" THEN m.values ELSE values
    /\ ret' = IF r.exc = "ok" THEN m.ref ELSE NoRef
    /\ err' = r.exc
    /\ UNCHANGED <<ignore, dummy_map, removeArgs>>

\* self.get_map_for_kernel(kernel_id)[activity_type] += delta
AddToActivity(op, kernel_id, activity_type, delta) ==
    LET m == MapForKernel(kernel_id)
        r == AugAssign(m.heap[m.ref], activity_type, delta)
    IN
    /\ InRange(r)
    /\ Called(op, kernel_id, activity_type)
    /\ Write
    /\ heap' = IF r.exc = "ok"
               THEN [m.heap EXCEPT ![m.ref] = SetItem(@, activity_type, r.v)]
               ELSE m.heap
    /\ nextRef' = m.nextRef
    /\ values' = m.values
    /\ ret' = m.ref
    /\ err' = r.exc
    /\ UNCHANGED <<ignore, dummy_map, removeArgs>>

increment_activity(kernel_id, activity_type) ==
    AddToActivity("increment_activity", kernel_id, activity_type, 1)

\* Mutant: the decrement adds 1, as the increment does.
decrement_activity_adds(kernel_id, activity_type) ==
    AddToActivity("decrement_activity", kernel_id, activity_type, 1)

decrement_activity(kernel_id, activity_type) ==
    AddToActivity("decrement_activity", kernel_id, activity_type, -1)

\* Mutant: the del is missing.
RemoveKernel_NoDel(kernel_id) ==
    IF kernel_id \in DOMAIN values
    THEN [values |-> values, ignore |-> ignore \cup {kernel_id}, heap |-> heap]
    ELSE [values |-> values, ignore |-> ignore, heap |-> heap]

\* Mutant: removing a kernel without a live record takes it off self.ignore.
RemoveKernel_Toggle(kernel_id) ==
    IF kernel_id \in DOMAIN values
    THEN [values |-> [k \in DOMAIN values \ {kernel_id} |-> values[k]],
          ignore |-> ignore \cup {kernel_id},
          heap |-> [r \in DOMAIN heap \ {values[kernel_id]} |-> heap[r]]]
    ELSE [values |-> values, ignore |-> ignore \ {kernel_id}, heap |-> heap]

\* Mutant: self.ignore.add is outside the if.
RemoveKernel_AlwaysIgnore(kernel_id) ==
    IF kernel_id \in DOMAIN values
    THEN [values |-> [k \in DOMAIN values \ {kernel_id} |-> values[k]],
          ignore |-> ignore \cup {kernel_id},
          heap |-> [r \in DOMAIN heap \ {values[kernel_id]} |-> heap[r]]]
    ELSE [values |-> values, ignore |-> ignore \cup {kernel_id}, heap |-> heap]

\* Mutant: the kernel id is not added to self.ignore.
RemoveKernel_NoIgnoreAdd(kernel_id) ==
    IF kernel_id \in DOMAIN values
    THEN [values |-> [k \in DOMAIN values \ {kernel_id} |-> values[k]],
          ignore |-> ignore,
          heap |-> [r \in DOMAIN heap \ {values[kernel_id]} |-> heap[r]]]
    ELSE [values |-> values, ignore |-> ignore, heap |-> heap]

\* The body of remove(kernel_id) as a function of the state: the values,
\* ignore and heap it leaves (del drops the last reference to the dict).
RemoveKernel(kernel_id) ==
    IF kernel_id \in DOMAIN values
    THEN [values |-> [k \in DOMAIN values \ {kernel_id} |-> values[k]],
          ignore |-> ignore \cup {kernel_id},
          heap |-> [r \in DOMAIN heap \ {values[kernel_id]} |-> heap[r]]]
    ELSE [values |-> values, ignore |-> ignore, heap |-> heap]

remove(kernel_id) ==
    LET m == RemoveKernel(kernel_id) IN
    /\ Called("remove", kernel_id, "")
    /\ values' = m.values
    /\ ignore' = m.ignore
    /\ heap' = m.heap
    /\ ret' = NoRef
    /\ err' = "ok"
    /\ removeArgs' = removeArgs \cup {<<kernel_id, Lifecycle(kernel_id)>>}
    /\ UNCHANGED <<nextRef, dummy_map, nwrites>>

\* get(): hands out self.values itself; nothing is written.
get ==
    /\ Called("get", "", "")
    /\ ret' = NoRef
    /\ err' = "ok"
    /\ UNCHANGED <<heap, nextRef, values, ignore, dummy_map, removeArgs, nwrites>>

Next ==
    \/ \E k \in Kernels : get_map_for_kernel(k)
    \/ \E k \in Kernels, a \in PublishArgs : publish(k, a[1], a[2])
    \/ \E k \in Kernels, f \in FieldArgs : increment_activity(k, f)
    \/ \E k \in Kernels, f \in FieldArgs : decrement_activity(k, f)
    \/ \E k \in Kernels : remove(k)
    \/ get

Spec == Init /\ [][Next]_vars

\* ================================================================ claims

\* The seven recognized activity keys.
RecognizedFields ==
    {LAST_MESSAGE_TO_CLIENT, LAST_MESSAGE_TO_KERNEL, LAST_TIME_STATE_CHANGED,
     BUSY, CONNECTIONS, LAST_CLIENT_CONNECT, LAST_CLIENT_DISCONNECT}

\* A record holding exactly the seven defaults: timestamps unset, busy
\* false, connections 0.
DefaultRecord ==
    [f \in RecognizedFields |->
        IF f = BUSY THEN BoolV(FALSE)
        ELSE IF f = CONNECTIONS THEN IntV(0)
        ELSE NoneV]

\* The calls that go through get_map_for_kernel.
MapOps == {"get_map_for_kernel", "publish", "increment_activity",
           "decrement_activity"}
IncDecOps == {"increment_activity", "decrement_activity"}

\* The record a call on kernel k finds: the dummy for an ignored k, the live
\* record of a tracked k, a new default record for an untracked k.
RecordSeen(k) ==
    IF k \in ignore THEN heap[dummy_map]
    ELSE IF k \in DOMAIN values THEN heap[values[k]]
    ELSE DefaultRecord

\* Every dict other than the one at ref is left as it was.
OthersUnchanged(ref) ==
    /\ DOMAIN heap' = DOMAIN heap
    /\ \A r \in DOMAIN heap \ {ref} : heap'[r] = heap[r]

\* The kernel ids remove() has been called with, and those among them that
\* had a live record when it was.
RemovedIds == {p[1] : p \in removeArgs}
RemovedLiveIds == {p[1] : p \in {q \in removeArgs : q[2] = "tracked"}}

C2_RecordsIgnoredDisjoint == DOMAIN values \cap ignore = {}

\* C2 witness: a call has gone through get_map_for_kernel for an ignored
\* kernel while another kernel has a live record.
C2_Witness ==
    /\ call.op \in MapOps
    /\ call.k \in ignore
    /\ DOMAIN values # {}

\* C3 (as stated): increment_activity(k, 'busy') on a record whose busy is
\* False raises TypeError and leaves the whole state as it was.
C3_BusyIncrementRaises ==
    [][(/\ call'.op = "increment_activity"
        /\ call'.f = BUSY
        /\ call'.k \in ignore \cup DOMAIN values
        /\ RecordSeen(call'.k)[BUSY] = BoolV(FALSE))
       => (/\ err' = "TypeError"
           /\ heap' = heap
           /\ values' = values
           /\ ignore' = ignore
           /\ dummy_map' = dummy_map)]_vars

\* C3 (amended): increment_activity(k, 'busy') on a record whose busy is
\* False raises nothing: busy becomes the int 1, and the record's other
\* fields, every other record, values, ignore and dummy_map stay as they were.
C3_BusyIncrementCounts ==
    [][(/\ call'.op = "increment_activity"
        /\ call'.f = BUSY
        /\ call'.k \in ignore \cup DOMAIN values
        /\ RecordSeen(call'.k)[BUSY] = BoolV(FALSE))
       => (/\ err' = "ok"
           /\ heap'[ret'][BUSY] = IntV(1)
           /\ DOMAIN heap'[ret'] = DOMAIN heap[ret']
           /\ \A f \in DOMAIN heap[ret'] \ {BUSY} : heap'[ret'][f] = heap[ret'][f]
           /\ OthersUnchanged(ret')
           /\ values' = values
           /\ ignore' = ignore
           /\ dummy_map' = dummy_map)]_vars

\* C3 witness: increment_activity(k, 'busy') has run on an existing record
\* and busy now holds the int 1.
C3_Witness ==
    /\ call.op = "increment_activity"
    /\ call.f = BUSY
    /\ call.pre \in {"tracked", "ignored"}
    /\ err = "ok"
    /\ heap[ret][BUSY] = IntV(1)

\* C4 (as stated): a call fails only with TypeError, raised by increment or
\* decrement on a field whose current value is not numeric.
C4_OnlyTypeMismatch ==
    err # "ok" =>
        /\ call.op \in IncDecOps
        /\ err = "TypeError"
        /\ call.f \in DOMAIN heap[ret]
        /\ heap[ret][call.f].t \notin {"int", "bool"}

\* C4 (amended): get_map_for_kernel, publish, remove and get never fail;
\* increment and decrement fail with KeyError exactly when the field is not
\* in the record, with TypeError exactly when it is there and holds neither
\* an int nor a bool, and otherwise succeed.
C4_TwoErrorKinds ==
    [][/\ call'.op \notin IncDecOps => err' = "ok"
       /\ call'.op \in IncDecOps =>
            LET d == RecordSeen(call'.k) IN
            err' = IF call'.f \notin DOMAIN d THEN "KeyError"
                   ELSE IF d[call'.f].t \in {"int", "bool"} THEN "ok"
                   ELSE "TypeError"]_vars

\* C4 witness: an increment or decrement has raised KeyError on a key that
\* is not in the record of a tracked kernel.
C4_Witness ==
    /\ call.op \in IncDecOps
    /\ err = "KeyError"
    /\ call.f \notin DOMAIN heap[ret]
    /\ call.k \in DOMAIN values

\* C5: ignore only grows, and a member of ignore is never a key of values
\* again.
C5_IgnoreOnlyGrows ==
    [][/\ ignore \subseteq ignore'
       /\ \A k \in ignore : k \notin DOMAIN values']_vars

\* C5 witness: a write has been made through an ignored kernel id.
C5_Witness ==
    /\ call.op \in MapOps \ {"get_map_for_kernel"}
    /\ call.pre = "ignored"
    /\ call.k \in ignore

\* C6: every record in values, and the dummy record, has all seven
\* recognized fields.
C6_AllSevenFields ==
    /\ RecognizedFields \subseteq DOMAIN heap[dummy_map]
    /\ \A k \in DOMAIN values : RecognizedFields \subseteq DOMAIN heap[values[k]]

\* C6 witness: a live record and the dummy record have both been written
\* to, one of them with a key outside the seven.
C6_Witness ==
    /\ \E k \in DOMAIN values : heap[values[k]] # DefaultRecord
    /\ heap[dummy_map] # DefaultRecord
    /\ \E r \in DOMAIN heap : UNKNOWN_KEY \in DOMAIN heap[r]

\* C7: for a kernel id never passed to remove, the first get_map_for_kernel
\* returns a record of exactly the seven defaults; the record stays the same
\* object from then on; writes on k go to that object; and a later
\* get_map_for_kernel returns it with its contents as the writes left them.
C7_SameRecordUntilRemoved ==
    [][\A k \in Kernels : k \notin {p[1] : p \in removeArgs'} =>
        /\ (call'.op = "get_map_for_kernel" /\ call'.k = k
              /\ k \notin DOMAIN values)
           => (heap'[ret'] = DefaultRecord /\ values'[k] = ret')
        /\ k \in DOMAIN values
           => (k \in DOMAIN values' /\ values'[k] = values[k])
        /\ (call'.op \in MapOps /\ call'.k = k) => ret' = values'[k]
        /\ (call'.op = "get_map_for_kernel" /\ call'.k = k
              /\ k \in DOMAIN values)
           => heap'[ret'] = heap[values[k]]]_vars

\* C7 witness: get_map_for_kernel has returned the record of a tracked,
\* never removed kernel, and the record no longer holds the defaults.
C7_Witness ==
    /\ call.op = "get_map_for_kernel"
    /\ call.pre = "tracked"
    /\ call.k \notin RemovedIds
    /\ heap[ret] # DefaultRecord

\* C8: a call through get_map_for_kernel for an ignored kernel id leaves
\* values and ignore as they were and creates no dict; only the dummy
\* record may change.
C8_IgnoredOnlyTouchesDummy ==
    [][(call'.op \in MapOps /\ call'.k \in ignore)
       => (/\ values' = values
           /\ ignore' = ignore
           /\ dummy_map' = dummy_map
           /\ ret' = dummy_map
           /\ OthersUnchanged(dummy_map))]_vars

\* C8 witness: a publish for an ignored kernel id has changed the dummy
\* record.
C8_Witness ==
    /\ call.op = "publish"
    /\ call.pre = "ignored"
    /\ ret = dummy_map
    /\ heap[dummy_map] # DefaultRecord

\* C9: remove(k) straight after remove(k) changes nothing: values, ignore,
\* the dicts and dummy_map are as the first remove(k) left them.
C9_RemoveIdempotent ==
    [][(call.op = "remove" /\ call'.op = "remove" /\ call'.k = call.k)
       => (/\ values' = values
           /\ ignore' = ignore
           /\ heap' = heap
           /\ dummy_map' = dummy_map)]_vars

\* C9 witness: remove(k) has been called on a kernel id an earlier
\* remove(k) had moved to ignore.
C9_Witness ==
    /\ call.op = "remove"
    /\ call.pre = "ignored"
    /\ call.k \in ignore

C11_IncrementThenDecrement ==
    [][/\ (/\ call'.op = "increment_activity"
           /\ call'.f = CONNECTIONS
           /\ RecordSeen(call'.k)[CONNECTIONS].t = "int")
          => (/\ err' = "ok"
              /\ heap'[ret'][CONNECTIONS] =
                    IntV(RecordSeen(call'.k)[CONNECTIONS].n + 1))
       /\ (/\ call.op = "increment_activity"
           /\ call.f = CONNECTIONS
           /\ err = "ok"
           /\ call'.op = "decrement_activity"
           /\ call'.f = CONNECTIONS
           /\ call'.k = call.k)
          => (/\ err' = "ok"
              /\ ret' = ret
              /\ heap'[ret'][CONNECTIONS] =
                    IntV(heap[ret][CONNECTIONS].n - 1))]_vars

\* C11 witness: k1 is the only kernel ever touched, two counted calls have
\* been made, the last a successful decrement of connections, and the
\* record of k1 holds the defaults again: the first call was the increment.
C11_Witness ==
    /\ call.op = "decrement_activity"
    /\ call.f = CONNECTIONS
    /\ call.k = "k1"
    /\ err = "ok"
    /\ nwrites = 2
    /\ ignore = {}
    /\ DOMAIN values = {"k1"}
    /\ heap[values["k1"]] = DefaultRecord

PublishedFor(f) == {a[2] : a \in {b \in PublishArgs : b[1] = f}}

C14_UntrackedGetsDefaults ==
    \A k \in Kernels \ DOMAIN values :
        LET m == MapForKernel(k) IN
        \A f \in RecognizedFields :
            /\ f \in DOMAIN m.heap[m.ref]
            /\ m.heap[m.ref][f] = DefaultRecord[f]

\* C15: increment_activity and decrement_activity on a field that holds
\* None raise TypeError, and the field holds None afterwards.
C15_UnsetRaisesTypeError ==
    [][(/\ call'.op \in IncDecOps
        /\ call'.f \in DOMAIN RecordSeen(call'.k)
        /\ RecordSeen(call'.k)[call'.f] = NoneV)
       => (/\ err' = "TypeError"
           /\ call'.f \in DOMAIN heap'[ret']
           /\ heap'[ret'][call'.f] = NoneV)]_vars

\* C15 witness: a decrement of last_client_connect, still at its default
\* None, has raised TypeError and the field is still None.
C15_Witness ==
    /\ call.op = "decrement_activity"
    /\ call.f = LAST_CLIENT_CONNECT
    /\ err = "TypeError"
    /\ heap[ret][LAST_CLIENT_CONNECT] = NoneV

\* No two live records are the same dict, and none is the dummy record.
NoAlias ==
    /\ dummy_map \in DOMAIN heap
    /\ \A k \in DOMAIN values :
          /\ values[k] \in DOMAIN heap
          /\ values[k] # dummy_map
          /\ \A j \in DOMAIN values \ {k} : values[j] # values[k]

\* C16: live records never alias each other or the dummy record; and a
\* publish, increment or decrement on a kernel k that is not ignored changes
\* only the named field of the record of k: every other field of it, every
\* other kernel's record, ignore and the dummy record are unchanged.
C16_LiveRecordsIsolated ==
    [][/\ NoAlias'
       /\ (call'.op \in MapOps \ {"get_map_for_kernel"} /\ call'.k \notin ignore)
          => (/\ DOMAIN values' = DOMAIN values \cup {call'.k}
              /\ ret' = values'[call'.k]
              /\ DOMAIN heap'[ret'] \subseteq
                    DOMAIN RecordSeen(call'.k) \cup {call'.f}
              /\ \A g \in DOMAIN RecordSeen(call'.k) \ {call'.f} :
                    /\ g \in DOMAIN heap'[ret']
                    /\ heap'[ret'][g] = RecordSeen(call'.k)[g]
              /\ \A j \in DOMAIN values \ {call'.k} :
                    /\ values'[j] = values[j]
                    /\ heap'[values'[j]] = heap[values[j]]
              /\ ignore' = ignore
              /\ dummy_map' = dummy_map
              /\ heap'[dummy_map'] = heap[dummy_map])]_vars

\* C16 witness: both kernels are tracked, a publish on one of them has just
\* run, their records differ and the dummy record still holds the defaults.
C16_Witness ==
    /\ call.op = "publish"
    /\ call.pre = "tracked"
    /\ DOMAIN values = {"k1", "k2"}
    /\ heap[values["k1"]] # heap[values["k2"]]
    /\ heap[dummy_map] = DefaultRecord

\* C17: increment_activity or decrement_activity on an untracked kernel k
\* stores a record for k before the arithmetic: k is a key of values after
\* the call whether or not it raised, and after a call that raised the
\* record holds exactly the defaults.
C17_RecordCreatedBeforeArithmetic ==
    [][(call'.op \in IncDecOps /\ Lifecycle(call'.k) = "untracked")
       => (/\ call'.k \in DOMAIN values'
           /\ ret' = values'[call'.k]
           /\ err' # "ok" => heap'[values'[call'.k]] = DefaultRecord)]_vars

\* C17 witness: an increment on an untracked kernel has raised, and the
\* kernel is a key of values with a record of defaults.
C17_Witness ==
    /\ call.op = "increment_activity"
    /\ call.pre = "untracked"
    /\ err # "ok"
    /\ call.k \in DOMAIN values
    /\ heap[values[call.k]] = DefaultRecord

\* C18: for a tracked kernel whose 'connections' has not been published to,
\* connections is the int (increments minus decrements made on it since the
\* record was created), below 0 as well; and an increment or decrement of
\* it never raises.
C18_ConnectionsIsNetCount ==
    \A k \in DOMAIN values :
        ~connCalls[k].pub =>
            /\ heap[values[k]][CONNECTIONS] = IntV(connCalls[k].net)
            /\ (call.k = k /\ call.op \in IncDecOps /\ call.f = CONNECTIONS)
               => err = "ok"

\* C18 witness: a decrement of connections on a tracked kernel with one
\* more decrement than increments has succeeded and left -1.
C18_Witness ==
    /\ call.op = "decrement_activity"
    /\ call.f = CONNECTIONS
    /\ call.k \in DOMAIN values
    /\ err = "ok"
    /\ ~connCalls[call.k].pub
    /\ connCalls[call.k].net = -1
    /\ heap[values[call.k]][CONNECTIONS] = IntV(-1)
====
